---------------------------- MODULE Spec2Model ----------------------------
(***************************************************************************)
(* NeuralSignal-Classifier: the classifiers, pattern analyzers and anomaly *)
(* detectors of the repository as one state machine.  A behaviour          *)
(* constructs one object (obj.cls names its class) and then calls its      *)
(* methods in any order with arguments drawn from small sets; ret records  *)
(* the outcome of the last call.                                           *)
(*                                                                         *)
(* Numbers are JavaScript numbers restricted to exact rationals plus NaN   *)
(* and the two infinities.  A matrix cell k stands for the value k/4: on   *)
(* such dyadic values the sums, halvings and squares of the code are exact *)
(* in IEEE-754 doubles too, so the rational arithmetic below is what the   *)
(* program computes.                                                      *)
(***************************************************************************)
EXTENDS Integers, Sequences, FiniteSets, TLC

VARIABLES obj, ret

vars == <<obj, ret>>

(***************************************************************************)
(* Bounds of the model.                                                    *)
(***************************************************************************)
\* longest argument of one train call
MaxTrain == 2
\* longest stored sequence an appending store may grow to
MaxStore == 3

(***************************************************************************)
(* JavaScript numbers.                                                     *)
(***************************************************************************)
RECURSIVE GCD(_, _)
GCD(a, b) == IF b = 0 THEN a ELSE GCD(b, a % b)

AbsInt(n) == IF n < 0 THEN -n ELSE n

\* the rational n/d (d > 0) in lowest terms
Fin(n, d) ==
  LET g == GCD(AbsInt(n), d)
  IN  [k |-> "fin", n |-> n \div g, d |-> d \div g]

NaN == [k |-> "nan", n |-> 0, d |-> 1]

PInf == [k |-> "inf", n |-> 1, d |-> 1]

NInf == [k |-> "inf", n |-> -1, d |-> 1]

Zero == Fin(0, 1)

One == Fin(1, 1)

Sign(a) == IF a.n > 0 THEN 1 ELSE IF a.n < 0 THEN -1 ELSE 0

InfOf(s) == IF s >= 0 THEN PInf ELSE NInf

Neg(a) == [a EXCEPT !.n = -a.n]

Add(a, b) ==
  CASE a.k = "nan" \/ b.k = "nan" -> NaN
    [] a.k = "inf" /\ b.k = "inf" -> IF a.n = b.n THEN a ELSE NaN
    [] a.k = "inf" -> a
    [] b.k = "inf" -> b
    [] OTHER -> Fin(a.n * b.d + b.n * a.d, a.d * b.d)

Sub(a, b) == Add(a, Neg(b))

Mul(a, b) ==
  CASE a.k = "nan" \/ b.k = "nan" -> NaN
    [] a.k = "inf" \/ b.k = "inf" ->
         IF Sign(a) * Sign(b) = 0 THEN NaN ELSE InfOf(Sign(a) * Sign(b))
    [] OTHER -> Fin(a.n * b.n, a.d * b.d)

\* a / b; a zero divisor is +0
Div(a, b) ==
  CASE a.k = "nan" \/ b.k = "nan" -> NaN
    [] a.k = "inf" /\ b.k = "inf" -> NaN
    [] a.k = "inf" -> InfOf(Sign(a) * (IF Sign(b) < 0 THEN -1 ELSE 1))
    [] b.k = "inf" -> Zero
    [] b.n = 0 -> IF a.n = 0 THEN NaN ELSE InfOf(Sign(a))
    [] OTHER -> Fin(a.n * b.d * Sign(b), a.d * AbsInt(b.n))

Abs(a) == IF a.k = "nan" THEN NaN ELSE [a EXCEPT !.n = AbsInt(a.n)]

\* Math.pow(a, 2)
Pow2(a) == Mul(a, a)

\* a < b; false when either is NaN
Lt(a, b) ==
  CASE a.k = "nan" \/ b.k = "nan" -> FALSE
    [] a.k = "inf" /\ b.k = "inf" -> a.n < b.n
    [] a.k = "inf" -> a.n < 0
    [] b.k = "inf" -> b.n > 0
    [] OTHER -> a.n * b.d < b.n * a.d

Gt(a, b) == Lt(b, a)

Le(a, b) == Lt(a, b) \/ (a.k # "nan" /\ a = b)

\* the integer square root of a perfect square
ISqrt(n) == CHOOSE r \in 0..n : r * r = n

\* Math.sqrt, exact: the matrices of the model keep every radicand a square
Sqrt(a) ==
  CASE a.k = "nan" -> NaN
    [] a.k = "inf" -> IF a.n > 0 THEN PInf ELSE NaN
    [] a.n < 0 -> NaN
    [] OTHER -> Fin(ISqrt(a.n), ISqrt(a.d))

\* x || 1
OrOne(a) == IF a.k = "nan" \/ (a.k = "fin" /\ a.n = 0) THEN One ELSE a

\* Math.min(a, b) and Math.max(a, b)
Min2(a, b) == IF a.k = "nan" \/ b.k = "nan" THEN NaN ELSE IF Lt(b, a) THEN b ELSE a

Max2(a, b) == IF a.k = "nan" \/ b.k = "nan" THEN NaN ELSE IF Gt(b, a) THEN b ELSE a

RECURSIVE SumSeq(_)
\* xs.reduce((sum, val) => sum + val, 0)
SumSeq(xs) == IF xs = <<>> THEN Zero ELSE Add(SumSeq(SubSeq(xs, 1, Len(xs) - 1)), xs[Len(xs)])

RECURSIVE MinSeq(_)
\* Math.min(...xs)
MinSeq(xs) == IF xs = <<>> THEN PInf ELSE Min2(MinSeq(SubSeq(xs, 1, Len(xs) - 1)), xs[Len(xs)])

RECURSIVE MaxSeq(_)
\* Math.max(...xs)
MaxSeq(xs) == IF xs = <<>> THEN NInf ELSE Max2(MaxSeq(SubSeq(xs, 1, Len(xs) - 1)), xs[Len(xs)])

(***************************************************************************)
(* Matrices: number[][] with cells in quarters.                            *)
(***************************************************************************)
\* the cell that stands for Infinity
InfCell == 1000000

\* the number a cell stands for
Cell(c) == IF c = InfCell THEN PInf ELSE Fin(c, 4)

RECURSIVE Flat(_)
\* data.flat(), as numbers
Flat(m) ==
  IF m = <<>> THEN <<>>
  ELSE [i \in 1..Len(m[1]) |-> Cell(m[1][i])] \o Flat(Tail(m))

\* the outcome of a call
Throw(e) == [kind |-> "throw", error |-> e, value |-> <<>>]

Return(v) == [kind |-> "return", error |-> "", value |-> v]

NULL == "<null>"

ErrNotTrained == "Classifier must be trained before making classifications"

ErrTypeError == "TypeError: Cannot read properties of undefined"

(***************************************************************************)
(* The arguments the calls are drawn from.                                 *)
(***************************************************************************)
\* matrices: no rows, one empty row, one and two cells, a far value, ragged rows
Matrices ==
  { <<>>, << <<>> >>, << <<3>> >>, << <<4>> >>, << <<8>> >>, << <<3, 4>> >>,
    << <<4, 3>> >>, << <<3>>, <<4, 4, 3>> >> }

\* the labeled patterns train is called with: two labels on one matrix, two
\* widths, an empty row, no rows
LabeledPatterns ==
  { [pattern |-> << <<3>> >>, label |-> "schizophrenia"],
    [pattern |-> << <<4>> >>, label |-> "bipolar"],
    [pattern |-> << <<4>> >>, label |-> "schizophrenia"],
    [pattern |-> << <<3, 4>> >>, label |-> "bipolar"],
    [pattern |-> << <<>> >>, label |-> "schizophrenia"],
    [pattern |-> <<>>, label |-> "bipolar"] }

RECURSIVE SeqsUpTo(_, _)
\* the sequences over S of length at most n
SeqsUpTo(S, n) ==
  IF n = 0 THEN {<<>>}
  ELSE LET shorter == SeqsUpTo(S, n - 1)
       IN  shorter \cup {Append(s, x) : s \in {t \in shorter : Len(t) = n - 1}, x \in S}

TrainArgs == SeqsUpTo(LabeledPatterns, MaxTrain)

(***************************************************************************)
(* NeuralSignalClassifier                                                  *)
(***************************************************************************)
New_NeuralSignalClassifier == [cls |-> "NeuralSignalClassifier", patterns |-> <<>>]

\* analyzePattern past its empty-data check
NSC_stats(data) ==
  LET flattened == Flat(data)
      len == Fin(Len(flattened), 1)
      mean == Div(SumSeq(flattened), len)
      variance == Div(SumSeq([i \in 1..Len(flattened) |-> Pow2(Sub(flattened[i], mean))]), len)
  IN  [mean |-> mean, stdDev |-> Sqrt(variance),
       max |-> MaxSeq(flattened), min |-> MinSeq(flattened)]

NSC_analyzePattern(data) ==
  IF Len(data) = 0 THEN Throw("Data cannot be empty") ELSE Return(NSC_stats(data))

\* the radicand of the distance between two feature records; Math.sqrt is
\* monotone and keeps NaN and Infinity, so comparing radicands is comparing distances
NSC_distance2(a, b) ==
  Add(Add(Add(Pow2(Sub(a.mean, b.mean)), Pow2(Sub(a.stdDev, b.stdDev))),
          Pow2(Sub(a.max, b.max))), Pow2(Sub(a.min, b.min)))

\* the comparison with which the last of several equal distances would win
NSC_closerOrEqual(distance, minDistance) == Le(distance, minDistance)

\* distance < minDistance
NSC_closer(distance, minDistance) == Lt(distance, minDistance)

RECURSIVE NSC_loop(_, _, _, _, _)
\* the for loop of classify from stored pattern i on
NSC_loop(patterns, inputStats, i, bestMatch, minDistance) ==
  IF i > Len(patterns) THEN Return(bestMatch)
  ELSE LET a == NSC_analyzePattern(patterns[i].pattern)
       IN  IF a.kind = "throw" THEN a
           ELSE LET distance == NSC_distance2(inputStats, a.value)
                IN  IF NSC_closer(distance, minDistance)
                    THEN NSC_loop(patterns, inputStats, i + 1, patterns[i].label, distance)
                    ELSE NSC_loop(patterns, inputStats, i + 1, bestMatch, minDistance)

NSC_classify(patterns, input) ==
  IF Len(patterns) = 0 THEN Throw(ErrNotTrained)
  ELSE LET a == NSC_analyzePattern(input)
       IN  IF a.kind = "throw" THEN a
           ELSE NSC_loop(patterns, a.value, 1, NULL, PInf)

NSC_Train(p) ==
  /\ obj.cls = "NeuralSignalClassifier"
  /\ obj' = [obj EXCEPT !.patterns = p]
  /\ ret' = [op |-> "train", arg |-> p, out |-> Return(<<>>)]

NSC_Classify(q) ==
  /\ obj.cls = "NeuralSignalClassifier"
  /\ ret' = [op |-> "classify", arg |-> q, out |-> NSC_classify(obj.patterns, q)]
  /\ UNCHANGED obj

NSC_AnalyzePattern(m) ==
  /\ obj.cls = "NeuralSignalClassifier"
  /\ ret' = [op |-> "analyzePattern", arg |-> m, out |-> NSC_analyzePattern(m)]
  /\ UNCHANGED obj

(***************************************************************************)
(* BrainSignalClassifier, the validating variant (classifier/index.ts      *)
(* lines 66-204): obj.cls = "BrainSignalClassifier1".                      *)
(***************************************************************************)
New_BrainSignalClassifier1 ==
  [cls |-> "BrainSignalClassifier1", trainingData |-> <<>>, patternDimensions |-> 0]

\* the labeled patterns of the validating train: with ragged rows too
BSC1_LabeledPatterns ==
  { [pattern |-> << <<3>> >>, label |-> "schizophrenia"],
    [pattern |-> << <<4>> >>, label |-> "bipolar"],
    [pattern |-> << <<3, 4>> >>, label |-> "schizophrenia"],
    [pattern |-> << <<>> >>, label |-> "bipolar"],
    [pattern |-> << <<3>>, <<4, 4, 3>> >>, label |-> "schizophrenia"] }

BSC1_TrainArgs == SeqsUpTo(BSC1_LabeledPatterns, MaxTrain)

\* some row of data is not as long as its first row
Ragged(data) == \E i \in 1..Len(data) : Len(data[i]) # Len(data[1])

\* flattened.reduce(sum) / flattened.length
MeanOf(data) == Div(SumSeq(Flat(data)), Fin(Len(Flat(data)), 1))

\* the cells (row, col) of data in row-major order
CellsOf(data) ==
  LET RECURSIVE from(_)
      from(i) == IF i > Len(data) THEN <<>>
                 ELSE [j \in 1..Len(data[i]) |-> <<i, j>>] \o from(i + 1)
  IN  from(1)

\* what analyzePattern returns, past its checks
BSC1_analysis(data) ==
  LET flattenedData == Flat(data)
      len == Fin(Len(flattenedData), 1)
      mean == Div(SumSeq(flattenedData), len)
      variance ==
        Div(SumSeq([i \in 1..Len(flattenedData) |-> Pow2(Sub(flattenedData[i], mean))]), len)
      stdDev == Sqrt(variance)
      zScore(c) == Abs(Div(Sub(Cell(data[c[1]][c[2]]), mean), OrOne(stdDev)))
      hits == SelectSeq(CellsOf(data), LAMBDA c : Gt(zScore(c), Fin(2, 1)))
      anomalies == [i \in 1..Len(hits) |->
                      [row |-> hits[i][1] - 1, col |-> hits[i][2] - 1,
                       value |-> Cell(data[hits[i][1]][hits[i][2]]), zScore |-> zScore(hits[i])]]
  IN  [dimensions |-> [rows |-> Len(data), columns |-> Len(data[1])],
       statistics |-> [mean |-> mean, variance |-> variance, standardDeviation |-> stdDev],
       anomalies |-> IF Len(anomalies) > 0 THEN anomalies ELSE NULL]

BSC1_analyzeOutcome(data) ==
  IF Len(data) = 0 THEN Throw("Neural data cannot be empty")
  ELSE IF Ragged(data) THEN Throw("All rows in neural data must have the same length")
  ELSE Return(BSC1_analysis(data))

\* the patternDimensions analyzePattern leaves behind
BSC1_analyzeDimensions(dim, data) ==
  IF Len(data) = 0 \/ Ragged(data) THEN dim ELSE Len(data[1])

BSC1_AnalyzePattern(m) ==
  /\ obj.cls = "BrainSignalClassifier1"
  /\ obj' = [obj EXCEPT !.patternDimensions = BSC1_analyzeDimensions(@, m)]
  /\ ret' = [op |-> "analyzePattern", arg |-> m, out |-> BSC1_analyzeOutcome(m)]

BSC1_trainOutcome(patterns) ==
  IF Len(patterns) = 0 THEN Throw("Training patterns cannot be empty")
  ELSE IF \E i \in 1..Len(patterns) : patterns[i].label = ""
  THEN Throw("Each pattern must have a valid label string")
  ELSE IF \E i \in 1..Len(patterns) : Ragged(patterns[i].pattern)
  THEN Throw("All rows in a pattern must have the same length")
  ELSE Return(<<>>)

\* the trainingData train leaves behind
BSC1_trained(trainingData, patterns) ==
  IF BSC1_trainOutcome(patterns).kind = "throw" THEN trainingData ELSE patterns

BSC1_Train(p) ==
  /\ obj.cls = "BrainSignalClassifier1"
  /\ obj' = [obj EXCEPT !.trainingData = BSC1_trained(@, p)]
  /\ ret' = [op |-> "train", arg |-> p, out |-> BSC1_trainOutcome(p)]

\* similarity > maxSimilarity
BSC_better(similarity, best) == Gt(similarity, best)

RECURSIVE BSC1_loop(_, _, _, _, _)
\* the for loop of classify from training pattern i on
BSC1_loop(trainingData, patternMean, i, bestMatch, maxSimilarity) ==
  IF i > Len(trainingData) THEN Return(bestMatch)
  ELSE LET trainingMean == MeanOf(trainingData[i].pattern)
           similarity == Div(One, Add(One, Abs(Sub(patternMean, trainingMean))))
       IN  IF BSC_better(similarity, maxSimilarity)
           THEN BSC1_loop(trainingData, patternMean, i + 1,
                          [label |-> trainingData[i].label, confidence |-> similarity],
                          similarity)
           ELSE BSC1_loop(trainingData, patternMean, i + 1, bestMatch, maxSimilarity)

\* firstRowLength !== this.patternDimensions && this.patternDimensions > 0
BSC1_mismatch(firstRowLength, patternDimensions) ==
  firstRowLength # patternDimensions /\ patternDimensions > 0

BSC1_classify(trainingData, patternDimensions, pattern) ==
  IF Len(trainingData) = 0 THEN Throw(ErrNotTrained)
  ELSE IF Len(pattern) = 0 THEN Throw("Pattern cannot be empty")
  ELSE IF Ragged(pattern) THEN Throw("All rows in pattern must have the same length")
  ELSE IF BSC1_mismatch(Len(pattern[1]), patternDimensions)
  THEN Throw("Pattern dimension mismatch")
  ELSE BSC1_loop(trainingData, MeanOf(pattern), 1, NULL, NInf)

BSC1_Classify(q) ==
  /\ obj.cls = "BrainSignalClassifier1"
  /\ ret' = [op |-> "classify", arg |-> q,
             out |-> BSC1_classify(obj.trainingData, obj.patternDimensions, q)]
  /\ UNCHANGED obj

(***************************************************************************)
(* BrainSignalClassifier, the dimension-recording variant                  *)
(* (classifier/index.ts lines 216-329): obj.cls = "BrainSignalClassifier". *)
(***************************************************************************)
New_BrainSignalClassifier ==
  [cls |-> "BrainSignalClassifier", trainingData |-> <<>>, patternDimensions |-> 0]

\* the private detectAnomalies: the rows whose average exceeds 0.7
BSC_detectAnomalies(neuralData) ==
  LET rows == [i \in 1..Len(neuralData) |-> i]
      avg(i) == Div(SumSeq([j \in 1..Len(neuralData[i]) |-> Cell(neuralData[i][j])]),
                    Fin(Len(neuralData[i]), 1))
      hits == SelectSeq(rows, LAMBDA i : Gt(avg(i), Fin(7, 10)))
  IN  [k \in 1..Len(hits) |-> hits[k] - 1]

BSC_analyzeOutcome(neuralData) ==
  IF Len(neuralData) = 0 THEN Throw("Neural data cannot be empty")
  ELSE LET flattenedData == Flat(neuralData)
           anomalies == BSC_detectAnomalies(neuralData)
       IN  Return([dimensions |-> Len(neuralData[1]),
                   totalReadings |-> Len(neuralData),
                   meanActivity |-> MeanOf(neuralData),
                   maxActivity |-> MaxSeq(flattenedData),
                   minActivity |-> MinSeq(flattenedData),
                   anomaliesDetected |-> Len(anomalies) > 0,
                   anomalyCount |-> Len(anomalies),
                   anomalyPositions |-> anomalies])

\* the patternDimensions analyzePattern leaves behind
BSC_analyzeDimensions(dim, neuralData) ==
  IF Len(neuralData) = 0 THEN dim ELSE Len(neuralData[1])

BSC_AnalyzePattern(m) ==
  /\ obj.cls = "BrainSignalClassifier"
  /\ obj' = [obj EXCEPT !.patternDimensions = BSC_analyzeDimensions(@, m)]
  /\ ret' = [op |-> "analyzePattern", arg |-> m, out |-> BSC_analyzeOutcome(m)]

\* pattern.pattern[0] is undefined for some pattern up to the first of another width
BSC_trainOutcome(patterns) ==
  IF Len(patterns) = 0 THEN Throw("Training patterns cannot be empty")
  ELSE IF Len(patterns[1].pattern) = 0 THEN Throw(ErrTypeError)
  ELSE LET first == Len(patterns[1].pattern[1])
           bad == {i \in 1..Len(patterns) :
                     \/ Len(patterns[i].pattern) = 0
                     \/ Len(patterns[i].pattern[1]) # first}
           stop == CHOOSE i \in bad : \A j \in bad : i <= j
       IN  IF bad = {} THEN Return(<<>>)
           ELSE IF Len(patterns[stop].pattern) = 0 THEN Throw(ErrTypeError)
           ELSE Throw("All training patterns must have the same dimensions")

\* a train that would assign the store before looking at the length
BSC_trainedUnchecked(trainingData, patterns) == patterns

\* the trainingData train leaves behind: assigned before the validation
BSC_trained(trainingData, patterns) ==
  IF Len(patterns) = 0 THEN trainingData ELSE patterns

\* the patternDimensions train leaves behind: assigned after the validation
BSC_trainDimensions(dim, patterns) ==
  IF BSC_trainOutcome(patterns).kind = "throw" THEN dim ELSE Len(patterns[1].pattern[1])

BSC_Train(p) ==
  /\ obj.cls = "BrainSignalClassifier"
  /\ obj' = [obj EXCEPT !.trainingData = BSC_trained(@, p),
                        !.patternDimensions = BSC_trainDimensions(@, p)]
  /\ ret' = [op |-> "train", arg |-> p, out |-> BSC_trainOutcome(p)]

RECURSIVE BSC_loop(_, _, _, _, _)
\* the for loop of classify from training pattern i on
BSC_loop(trainingData, patternAvg, i, bestMatch, highestSimilarity) ==
  IF i > Len(trainingData)
  THEN Return([label |-> IF bestMatch # NULL THEN bestMatch ELSE "unknown",
               confidence |-> highestSimilarity])
  ELSE LET trainingAvg == MeanOf(trainingData[i].pattern)
           similarity == Sub(One, Abs(Sub(patternAvg, trainingAvg)))
       IN  IF BSC_better(similarity, highestSimilarity)
           THEN BSC_loop(trainingData, patternAvg, i + 1, trainingData[i].label, similarity)
           ELSE BSC_loop(trainingData, patternAvg, i + 1, bestMatch, highestSimilarity)

\* pattern[0].length !== this.patternDimensions
BSC_mismatch(width, patternDimensions) == width # patternDimensions

BSC_classify(trainingData, patternDimensions, pattern) ==
  IF Len(trainingData) = 0 THEN Throw(ErrNotTrained)
  ELSE IF Len(pattern) = 0 THEN Throw(ErrTypeError)
  ELSE IF BSC_mismatch(Len(pattern[1]), patternDimensions)
  THEN Throw("Pattern dimension mismatch")
  ELSE BSC_loop(trainingData, MeanOf(pattern), 1, NULL, NInf)

BSC_Classify(q) ==
  /\ obj.cls = "BrainSignalClassifier"
  /\ ret' = [op |-> "classify", arg |-> q,
             out |-> BSC_classify(obj.trainingData, obj.patternDimensions, q)]
  /\ UNCHANGED obj

(***************************************************************************)
(* PatternAnalyzer of utils/patternAnalyzer.ts (Euclidean distance, ranked *)
(* list): obj.cls = "PatternAnalyzer".                                     *)
(***************************************************************************)
New_PatternAnalyzer == [cls |-> "PatternAnalyzer", patterns |-> <<>>]

\* matrices whose zero-padded distances are rational: corners of a 9-12-15 rectangle
PA_Matrices ==
  { <<>>, << <<>> >>, << <<9>> >>, << <<9, 12>> >>, << <<0, 12>> >>, << <<9, 12>>, <<>> >> }

PA_LabeledPatterns ==
  { [pattern |-> << <<9>> >>, label |-> "schizophrenia"],
    [pattern |-> << <<9, 12>> >>, label |-> "bipolar"],
    [pattern |-> << <<9, 12>>, <<>> >>, label |-> "schizophrenia"],
    [pattern |-> << <<0, 12>> >>, label |-> "schizophrenia"],
    [pattern |-> <<>>, label |-> "bipolar"] }

PA_TrainArgs == SeqsUpTo(PA_LabeledPatterns, MaxTrain)

\* data[row][col] in arithmetic: undefined counts as NaN
At(data, row, col) == IF col <= Len(data[row]) THEN Cell(data[row][col]) ELSE NaN

\* calculateAverages
PA_calculateAverages(data) ==
  IF Len(data) = 0 THEN <<>>
  ELSE [col \in 1..Len(data[1]) |->
          Div(SumSeq([row \in 1..Len(data) |-> At(data, row, col)]), Fin(Len(data), 1))]

\* calculateStandardDeviations
PA_calculateStandardDeviations(data, averages) ==
  IF Len(data) = 0 THEN <<>>
  ELSE [col \in 1..Len(data[1]) |->
          Sqrt(Div(SumSeq([row \in 1..Len(data) |->
                             Pow2(Sub(At(data, row, col), averages[col]))]),
                   Fin(Len(data), 1)))]

\* row[j] || 0 of a row that may be missing or short
OrZero(pattern, i, j) ==
  IF i <= Len(pattern) /\ j <= Len(pattern[i]) THEN Cell(pattern[i][j]) ELSE Zero

MaxInt(a, b) == IF a > b THEN a ELSE b

\* a distance over the rows and columns of pattern1 alone
PA_distanceOverFirst(pattern1, pattern2) ==
  LET rowSum(i) ==
        SumSeq([j \in 1..Len(pattern1[i]) |->
                  Pow2(Sub(OrZero(pattern1, i, j), OrZero(pattern2, i, j)))])
  IN  Sqrt(SumSeq([i \in 1..Len(pattern1) |-> rowSum(i)]))

\* calculateEuclideanDistance
PA_calculateEuclideanDistance(pattern1, pattern2) ==
  LET maxRows == MaxInt(Len(pattern1), Len(pattern2))
      rowLen(p, i) == IF i <= Len(p) THEN Len(p[i]) ELSE 0
      rowSum(i) ==
        SumSeq([j \in 1..MaxInt(rowLen(pattern1, i), rowLen(pattern2, i)) |->
                  Pow2(Sub(OrZero(pattern1, i, j), OrZero(pattern2, i, j)))])
  IN  Sqrt(SumSeq([i \in 1..maxRows |-> rowSum(i)]))

RECURSIVE InsertByConfidence(_, _)
\* sorted with m placed after every entry of confidence at least m's
InsertByConfidence(sorted, m) ==
  IF sorted = <<>> THEN <<m>>
  ELSE IF Gt(m.confidence, sorted[1].confidence) THEN <<m>> \o sorted
  ELSE <<sorted[1]>> \o InsertByConfidence(Tail(sorted), m)

RECURSIVE PA_sort(_)
\* matches.sort((a, b) => b.confidence - a.confidence): descending and stable
PA_sort(matches) ==
  IF matches = <<>> THEN <<>>
  ELSE InsertByConfidence(PA_sort(SubSeq(matches, 1, Len(matches) - 1)), matches[Len(matches)])

\* findPatternMatches
PA_findPatternMatches(patterns, data) ==
  IF Len(patterns) = 0 THEN <<>>
  ELSE PA_sort([i \in 1..Len(patterns) |->
                  [label |-> patterns[i].label,
                   confidence |->
                     Max2(Zero, Sub(One, Div(PA_calculateEuclideanDistance(data, patterns[i].pattern),
                                             Fin(10, 1))))]])

\* analyzePattern
PA_analyzePattern(patterns, data) ==
  LET averages == PA_calculateAverages(data)
      stdDeviations == PA_calculateStandardDeviations(data, averages)
      avgAt(j) == IF j <= Len(averages) THEN averages[j] ELSE NaN
      stdAt(j) == IF j <= Len(stdDeviations) THEN OrOne(stdDeviations[j]) ELSE One
      zScore(c) == Abs(Div(Sub(Cell(data[c[1]][c[2]]), avgAt(c[2])), stdAt(c[2])))
      cells == CellsOf(data)
      hits == SelectSeq(cells, LAMBDA c : Gt(zScore(c), Fin(2, 1)))
      anomalyScore == SumSeq([k \in 1..Len(hits) |-> zScore(hits[k])])
  IN  [anomalyScore |-> Div(anomalyScore, Fin(Len(cells), 1)),
       patternMatches |-> PA_findPatternMatches(patterns, data)]

\* the pairs of matrices whose distance is taken: also with an infinite value
PA_DistanceMatrices == PA_Matrices \cup { << <<InfCell>> >>, << <<9, InfCell>> >> }

\* the distance step of findPatternMatches
PA_CalculateEuclideanDistance(pattern1, pattern2) ==
  /\ obj.cls = "PatternAnalyzer"
  /\ ret' = [op |-> "calculateEuclideanDistance", arg |-> <<pattern1, pattern2>>,
             out |-> Return(PA_calculateEuclideanDistance(pattern1, pattern2))]
  /\ UNCHANGED obj

PA_Train(p) ==
  /\ obj.cls = "PatternAnalyzer"
  /\ obj' = [obj EXCEPT !.patterns = p]
  /\ ret' = [op |-> "train", arg |-> p, out |-> Return(<<>>)]

PA_Classify(q) ==
  /\ obj.cls = "PatternAnalyzer"
  /\ ret' = [op |-> "classify", arg |-> q, out |-> Return(PA_findPatternMatches(obj.patterns, q))]
  /\ UNCHANGED obj

PA_AnalyzePattern(m) ==
  /\ obj.cls = "PatternAnalyzer"
  /\ ret' = [op |-> "analyzePattern", arg |-> m, out |-> Return(PA_analyzePattern(obj.patterns, m))]
  /\ UNCHANGED obj

(***************************************************************************)
(* PatternAnalyzer of utils/modelTrainer.ts (per-row similarity, matches   *)
(* above 0.7): obj.cls = "PatternAnalyzer2".  A stored matrix is one       *)
(* object: a match returned by findMatchingPatterns holds the stored       *)
(* matrix itself, which ref (the index of the stored example) records.     *)
(***************************************************************************)
New_PatternAnalyzer2 == [cls |-> "PatternAnalyzer2", patterns |-> <<>>]

PA2_Matrices == { <<>>, << <<>> >>, << <<3>> >>, << <<4>> >>, << <<3, 4>> >> }

PA2_LabeledPatterns ==
  { [pattern |-> << <<3>> >>, label |-> "bipolar"],
    [pattern |-> << <<4>> >>, label |-> "bipolar"],
    [pattern |-> << <<4>> >>, label |-> "schizophrenia"],
    [pattern |-> << <<3, 4>> >>, label |-> "schizophrenia"] }

PA2_TrainArgs == SeqsUpTo(PA2_LabeledPatterns, MaxTrain)

\* the stored sequence after train(trainingData)
PA2_train(patterns, trainingData) == patterns \o trainingData

\* calculatePatternSimilarity
PA2_calculatePatternSimilarity(pattern1, pattern2) ==
  IF Len(pattern1) # Len(pattern2) THEN Zero
  ELSE IF \E i \in 1..Len(pattern1) : Len(pattern1[i]) # Len(pattern2[i]) THEN Zero
  ELSE LET rowSimilarity(i) ==
             SumSeq([j \in 1..Len(pattern1[i]) |->
                       Sub(One, Abs(Sub(Cell(pattern1[i][j]), Cell(pattern2[i][j]))))])
           totalSimilarity ==
             SumSeq([i \in 1..Len(pattern1) |->
                       Div(rowSimilarity(i), Fin(Len(pattern1[i]), 1))])
       IN  Div(totalSimilarity, Fin(Len(pattern1), 1))

\* match.similarity > 0.7
PA2_isMatch(similarity) == Gt(similarity, Fin(7, 10))

\* findMatchingPatterns
PA2_findMatchingPatterns(patterns, pattern) ==
  SelectSeq([i \in 1..Len(patterns) |->
               [label |-> patterns[i].label, pattern |-> patterns[i].pattern,
                similarity |-> PA2_calculatePatternSimilarity(pattern, patterns[i].pattern),
                ref |-> i]],
            LAMBDA match : PA2_isMatch(match.similarity))

RECURSIVE PA2_best(_, _, _)
\* matches.reduce((best, current) => current.similarity > best.similarity ? current : best)
PA2_best(matches, i, best) ==
  IF i > Len(matches) THEN best
  ELSE PA2_best(matches, i + 1,
                IF Gt(matches[i].similarity, best.similarity) THEN matches[i] ELSE best)

\* classify
PA2_classify(patterns, pattern) ==
  IF Len(pattern) = 0 THEN Throw("Invalid pattern provided")
  ELSE LET matches == PA2_findMatchingPatterns(patterns, pattern)
       IN  IF Len(matches) = 0
           THEN Return([label |-> "unknown", confidence |-> Zero, matchedPatterns |-> <<>>])
           ELSE LET bestMatch == PA2_best(matches, 2, matches[1])
                IN  Return([label |-> bestMatch.label, confidence |-> bestMatch.similarity,
                            matchedPatterns |-> matches])

\* calculateStatistics
PA2_calculateStatistics(data) ==
  LET flattened == Flat(data)
      len == Fin(Len(flattened), 1)
      mean == Div(SumSeq(flattened), len)
      variance == Div(SumSeq([i \in 1..Len(flattened) |-> Pow2(Sub(flattened[i], mean))]), len)
  IN  [mean |-> mean, variance |-> variance, standardDeviation |-> Sqrt(variance),
       min |-> MinSeq(flattened), max |-> MaxSeq(flattened), count |-> Len(flattened)]

\* generateRecommendations
PA2_generateRecommendations(matches) ==
  LET has(l) == \E i \in 1..Len(matches) : matches[i].label = l
      s == IF has("schizophrenia") THEN <<"schizophrenia markers">> ELSE <<>>
      b == IF has("bipolar") THEN <<"bipolar markers">> ELSE <<>>
  IN  IF Len(matches) = 0 THEN <<"No matching patterns found">>
      ELSE IF s \o b = <<>> THEN <<"no specific psychiatric indicators">>
      ELSE s \o b

\* analyzePattern, without its timestamp
PA2_analyzePattern(patterns, neuralData) ==
  IF Len(neuralData) = 0 THEN Throw("Invalid neural data provided")
  ELSE LET matches == PA2_findMatchingPatterns(patterns, neuralData)
       IN  Return([statistics |-> PA2_calculateStatistics(neuralData),
                   matches |-> matches,
                   confidence |-> IF Len(matches) > 0
                                  THEN Min2(One, Mul(Fin(Len(matches), 1), Fin(3, 10)))
                                  ELSE Zero,
                   recommendations |-> PA2_generateRecommendations(matches)])

PA2_Train(p) ==
  /\ obj.cls = "PatternAnalyzer2"
  /\ Len(obj.patterns) + Len(p) <= MaxStore
  /\ obj' = [obj EXCEPT !.patterns = PA2_train(@, p)]
  /\ ret' = [op |-> "train", arg |-> p, out |-> Return(<<>>)]

PA2_Classify(q) ==
  /\ obj.cls = "PatternAnalyzer2"
  /\ ret' = [op |-> "classify", arg |-> q, out |-> PA2_classify(obj.patterns, q)]
  /\ UNCHANGED obj

PA2_AnalyzePattern(m) ==
  /\ obj.cls = "PatternAnalyzer2"
  /\ ret' = [op |-> "analyzePattern", arg |-> m, out |-> PA2_analyzePattern(obj.patterns, m)]
  /\ UNCHANGED obj

\* pattern with its first cell overwritten by the caller (with 0.25)
Overwritten(pattern) == [pattern EXCEPT ![1][1] = 1]

\* the caller runs result.matchedPatterns[k].pattern[0][0] = 0.25: the
\* match holds the stored matrix, so the write lands in the store
PA2_WriteMatchedPattern(k) ==
  /\ obj.cls = "PatternAnalyzer2"
  /\ ret.op \in {"classify", "write matchedPatterns[k].pattern", "write matchedPatterns"}
  /\ ret.out.kind = "return"
  /\ k \in 1..Len(ret.out.value.matchedPatterns)
  /\ LET match == ret.out.value.matchedPatterns[k]
     IN  /\ obj' = [obj EXCEPT !.patterns[match.ref].pattern = Overwritten(@)]
         /\ ret' = [op |-> "write matchedPatterns[k].pattern", arg |-> k,
                    out |-> [ret.out EXCEPT !.value.matchedPatterns[k].pattern = Overwritten(@)]]

\* the caller runs result.matchedPatterns.pop(): the array is the caller's own
PA2_WriteMatchList ==
  /\ obj.cls = "PatternAnalyzer2"
  /\ ret.op \in {"classify", "write matchedPatterns[k].pattern", "write matchedPatterns"}
  /\ ret.out.kind = "return"
  /\ Len(ret.out.value.matchedPatterns) > 0
  /\ ret' = [op |-> "write matchedPatterns", arg |-> <<>>,
             out |-> [ret.out EXCEPT !.value.matchedPatterns = SubSeq(@, 1, Len(@) - 1)]]
  /\ UNCHANGED obj

(***************************************************************************)
(* AnomalyDetector of classifier/anomalyDetector.ts (cosine similarity     *)
(* against appended references): obj.cls = "AnomalyDetector".              *)
(* referencePatterns is a Map: a sequence of entries in insertion order.   *)
(***************************************************************************)
\* most rows one label's reference grows to
MaxRefRows == 2

DefaultThresholds ==
  [l \in {"schizophrenia", "bipolar", "control"} |->
     CASE l = "schizophrenia" -> Fin(7, 10)
       [] l = "bipolar" -> Fin(65, 100)
       [] l = "control" -> Fin(5, 10)]

New_AnomalyDetector ==
  [cls |-> "AnomalyDetector", thresholds |-> DefaultThresholds, referencePatterns |-> <<>>]

\* the data detection is called with
AD_Matrices ==
  { <<>>, << <<2>> >>, << <<3, 4>> >>, << <<-3, -4>> >>, << <<2>>, <<4>> >> }

\* the matrices registered as references
AD_References == { <<>>, << <<2>> >>, << <<3, 4>> >> }

AD_Labels == {"schizophrenia", "control"}

AD_ThresholdLabels == {"schizophrenia", "bipolar", "control"}

AD_ThresholdValues == {One}

\* calculateAveragePattern
AD_calculateAveragePattern(data) ==
  IF Len(data) = 0 THEN <<>>
  ELSE [i \in 1..Len(data[1]) |->
          Div(SumSeq([j \in 1..Len(data) |-> At(data, j, i)]), Fin(Len(data), 1))]

\* calculateCosineSimilarity
AD_calculateCosineSimilarity(a, b) ==
  IF Len(a) # Len(b) THEN Zero
  ELSE LET dotProduct == SumSeq([i \in 1..Len(a) |-> Mul(a[i], b[i])])
           magnitudeA == SumSeq([i \in 1..Len(a) |-> Mul(a[i], a[i])])
           magnitudeB == SumSeq([i \in 1..Len(a) |-> Mul(b[i], b[i])])
       IN  IF magnitudeA = Zero \/ magnitudeB = Zero THEN Zero
           ELSE Div(dotProduct, Mul(Sqrt(magnitudeA), Sqrt(magnitudeB)))

\* compareWithReferences
AD_compareWithReferences(referencePatterns, pattern) ==
  LET used == SelectSeq(referencePatterns, LAMBDA e : Len(e.reference) > 0)
  IN  [k \in 1..Len(used) |->
         AD_calculateCosineSimilarity(pattern, AD_calculateAveragePattern(used[k].reference))]

\* anomalyScore > 0.3
AD_isAnomalous(thresholds, anomalyScore) == Gt(anomalyScore, Fin(3, 10))

\* detectAnomalies
AD_detectAnomalies(thresholds, referencePatterns, data) ==
  IF Len(data) = 0
  THEN [anomalyScore |-> Zero, isAnomalous |-> FALSE, confidence |-> Zero]
  ELSE LET avgPattern == AD_calculateAveragePattern(data)
           similarities == AD_compareWithReferences(referencePatterns, avgPattern)
           minSimilarity == MinSeq(similarities)
           anomalyScore == Sub(One, minSimilarity)
       IN  [anomalyScore |-> anomalyScore,
            isAnomalous |-> AD_isAnomalous(thresholds, anomalyScore),
            confidence |-> Min2(One, Mul(anomalyScore, Fin(2, 1)))]

\* the index of label's entry in the Map, 0 when it has none
EntryOf(referencePatterns, label) ==
  IF \E i \in 1..Len(referencePatterns) : referencePatterns[i].label = label
  THEN CHOOSE i \in 1..Len(referencePatterns) : referencePatterns[i].label = label
  ELSE 0

\* the reference of label, <<>> when it has none
ReferenceOf(referencePatterns, label) ==
  IF EntryOf(referencePatterns, label) = 0 THEN <<>>
  ELSE referencePatterns[EntryOf(referencePatterns, label)].reference

\* the Map after addReferencePattern(label, pattern)
AD_addReferencePattern(referencePatterns, label, pattern) ==
  LET present ==
        IF EntryOf(referencePatterns, label) = 0
        THEN Append(referencePatterns, [label |-> label, reference |-> <<>>])
        ELSE referencePatterns
  IN  [present EXCEPT ![EntryOf(present, label)].reference = @ \o pattern]

\* the thresholds after updateThreshold(condition, threshold)
AD_updateThreshold(thresholds, condition, threshold) ==
  [l \in DOMAIN thresholds \cup {condition} |->
     IF l = condition THEN threshold ELSE thresholds[l]]

AD_DetectAnomalies(m) ==
  /\ obj.cls = "AnomalyDetector"
  /\ ret' = [op |-> "detectAnomalies", arg |-> m,
             out |-> Return(AD_detectAnomalies(obj.thresholds, obj.referencePatterns, m))]
  /\ UNCHANGED obj

AD_AddReferencePattern(l, m) ==
  /\ obj.cls = "AnomalyDetector"
  /\ Len(ReferenceOf(obj.referencePatterns, l)) + Len(m) <= MaxRefRows
  /\ obj' = [obj EXCEPT !.referencePatterns = AD_addReferencePattern(@, l, m)]
  /\ ret' = [op |-> "addReferencePattern", arg |-> <<l, m>>, out |-> Return(<<>>)]

AD_UpdateThreshold(l, t) ==
  /\ obj.cls = "AnomalyDetector"
  /\ obj' = [obj EXCEPT !.thresholds = AD_updateThreshold(@, l, t)]
  /\ ret' = [op |-> "updateThreshold", arg |-> <<l, t>>, out |-> Return(<<>>)]

\* getThresholds: new Map(this.thresholds), a copy
AD_GetThresholds ==
  /\ obj.cls = "AnomalyDetector"
  /\ ret' = [op |-> "getThresholds", arg |-> <<>>, out |-> Return(obj.thresholds)]
  /\ UNCHANGED obj

\* the caller runs returned.set(l, 0) on the map getThresholds returned
AD_WriteReturnedThresholds(l) ==
  /\ obj.cls = "AnomalyDetector"
  /\ ret.op \in {"getThresholds", "write thresholds"}
  /\ ret' = [op |-> "write thresholds", arg |-> l,
             out |-> Return(AD_updateThreshold(ret.out.value, l, Zero))]
  /\ UNCHANGED obj

(***************************************************************************)
(* AnomalyDetector of unnamed/part_001 (row distance against a set         *)
(* reference, per-label threshold): obj.cls = "AnomalyDetector2".          *)
(***************************************************************************)
New_AnomalyDetector2 ==
  [cls |-> "AnomalyDetector2", thresholds |-> DefaultThresholds, referencePatterns |-> <<>>]

AD2_Labels == {"schizophrenia", "tremor"}

\* this.thresholds.get(patternType) || 0.5
AD2_threshold(thresholds, patternType) ==
  IF patternType \in DOMAIN thresholds /\ thresholds[patternType] # Zero
  THEN thresholds[patternType]
  ELSE Fin(5, 10)

\* calculateEuclideanDistance of two rows of one length
AD2_calculateEuclideanDistance(point1, point2) ==
  Sqrt(SumSeq([i \in 1..Len(point1) |-> Pow2(Sub(Cell(point1[i]), Cell(point2[i])))]))

MinInt(a, b) == IF a < b THEN a ELSE b

\* calculateDeviations
AD2_calculateDeviations(referencePatterns, data, patternType) ==
  LET reference == ReferenceOf(referencePatterns, patternType)
      n == MinInt(Len(data), Len(reference))
  IN  IF \E i \in 1..n : Len(data[i]) # Len(reference[i])
      THEN Throw("Points must have the same dimensions")
      ELSE Return([i \in 1..n |-> AD2_calculateEuclideanDistance(data[i], reference[i])])

\* calculateAverage
AD2_calculateAverage(values) ==
  IF Len(values) = 0 THEN Zero ELSE Div(SumSeq(values), Fin(Len(values), 1))

\* getAnomalyScore
AD2_getAnomalyScore(referencePatterns, data, patternType) ==
  LET deviations == AD2_calculateDeviations(referencePatterns, data, patternType)
  IN  IF deviations.kind = "throw" THEN deviations
      ELSE Return(AD2_calculateAverage(deviations.value))

\* detectAnomalies
AD2_detectAnomalies(thresholds, referencePatterns, data, patternType) ==
  LET avgDeviation == AD2_getAnomalyScore(referencePatterns, data, patternType)
  IN  IF avgDeviation.kind = "throw" THEN avgDeviation
      ELSE Return(Gt(avgDeviation.value, AD2_threshold(thresholds, patternType)))

\* the Map after setReferencePattern(patternType, pattern)
AD2_setReferencePattern(referencePatterns, patternType, pattern) ==
  IF EntryOf(referencePatterns, patternType) = 0
  THEN Append(referencePatterns, [label |-> patternType, reference |-> pattern])
  ELSE [referencePatterns EXCEPT ![EntryOf(referencePatterns, patternType)].reference = pattern]

AD2_DetectAnomalies(m, l) ==
  /\ obj.cls = "AnomalyDetector2"
  /\ ret' = [op |-> "detectAnomalies", arg |-> <<m, l>>,
             out |-> AD2_detectAnomalies(obj.thresholds, obj.referencePatterns, m, l)]
  /\ UNCHANGED obj

AD2_GetAnomalyScore(m, l) ==
  /\ obj.cls = "AnomalyDetector2"
  /\ ret' = [op |-> "getAnomalyScore", arg |-> <<m, l>>,
             out |-> AD2_getAnomalyScore(obj.referencePatterns, m, l)]
  /\ UNCHANGED obj

AD2_SetReferencePattern(l, m) ==
  /\ obj.cls = "AnomalyDetector2"
  /\ obj' = [obj EXCEPT !.referencePatterns = AD2_setReferencePattern(@, l, m)]
  /\ ret' = [op |-> "setReferencePattern", arg |-> <<l, m>>, out |-> Return(<<>>)]

(***************************************************************************)
(* DataProcessor of config/index.ts (obj.cls = "DataProcessor") and of     *)
(* utils/dataProcessor.ts (obj.cls = "DataProcessor2"): static methods, no *)
(* fields.  Their matrices hold numbers, so that a cell can be NaN or      *)
(* Infinity.                                                               *)
(***************************************************************************)
New_DataProcessor == [cls |-> "DataProcessor"]

New_DataProcessor2 == [cls |-> "DataProcessor2"]

\* matrices for calculateFeatures: no rows, an empty row, one row, ragged rows
DP_FeatureMatrices ==
  { <<>>, << <<>> >>, << <<Fin(3, 4)>> >>, << <<Fin(3, 4), One>> >>,
    << <<Fin(3, 4)>>, <<One, One, Fin(3, 4)>> >> }

\* rows for normalize: empty, equal values, a negative value, a middle
\* value, and cells that are not finite
DP_Rows ==
  { <<>>, <<Zero>>, <<One>>, <<One, One>>, <<Neg(One), One>>, <<Zero, One, Fin(3, 4)>>,
    <<PInf>>, <<PInf, Zero>>, <<NaN, One, Fin(2, 1)>>, <<NInf, One>> }

\* matrices for normalize: no row, one row, two rows (ragged ones too)
DP_Matrices ==
  {<<>>} \cup {<<r>> : r \in DP_Rows} \cup {<<r, s>> : r \in DP_Rows, s \in DP_Rows}

\* data.flat() of a matrix of numbers
DP_flat(data) ==
  LET RECURSIVE cat(_)
      cat(i) == IF i > Len(data) THEN <<>> ELSE data[i] \o cat(i + 1)
  IN  cat(1)

RECURSIVE DP_min(_, _, _)
\* if (value < min) min = value, over the values from i on
DP_min(values, i, min) ==
  IF i > Len(values) THEN min
  ELSE DP_min(values, i + 1, IF Lt(values[i], min) THEN values[i] ELSE min)

RECURSIVE DP_max(_, _, _)
\* if (value > max) max = value, over the values from i on
DP_max(values, i, max) ==
  IF i > Len(values) THEN max
  ELSE DP_max(values, i + 1, IF Gt(values[i], max) THEN values[i] ELSE max)

\* a value moved to the minimum but not divided by the range
DP_shift(value, min, range) == Sub(value, min)

\* (value - min) / range
DP_scale(value, min, range) == Div(Sub(value, min), range)

\* normalize of config/index.ts
DP_normalize(data) ==
  IF Len(data) = 0 THEN <<>>
  ELSE LET min == DP_min(DP_flat(data), 1, PInf)
           max == DP_max(DP_flat(data), 1, NInf)
           range == OrOne(Sub(max, min))
       IN  [r \in 1..Len(data) |-> [c \in 1..Len(data[r]) |-> DP_scale(data[r][c], min, range)]]

\* normalize of utils/dataProcessor.ts
DP2_normalize(data) ==
  IF Len(data) = 0 THEN <<>>
  ELSE LET min == DP_min(DP_flat(data), 1, PInf)
           max == DP_max(DP_flat(data), 1, NInf)
           range == OrOne(Sub(max, min))
       IN  [r \in 1..Len(data) |-> [c \in 1..Len(data[r]) |-> DP_scale(data[r][c], min, range)]]

\* calculateFeatures; the object {} is the function with no field
DP_calculateFeatures(data) ==
  IF Len(data) = 0 THEN <<>>
  ELSE LET flattened == DP_flat(data)
           len == Fin(Len(flattened), 1)
           mean == Div(SumSeq(flattened), len)
           variance == Div(SumSeq([i \in 1..Len(flattened) |-> Pow2(Sub(flattened[i], mean))]), len)
           totalChange == SumSeq([i \in 1..(Len(flattened) - 1) |->
                                    Abs(Sub(flattened[i + 1], flattened[i]))])
       IN  [mean |-> mean, variance |-> variance, stdDev |-> Sqrt(variance),
            min |-> MinSeq(flattened), max |-> MaxSeq(flattened),
            avgChange |-> IF Len(flattened) > 1
                          THEN Div(totalChange, Fin(Len(flattened) - 1, 1))
                          ELSE Zero]

DP_Normalize(m) ==
  /\ obj.cls = "DataProcessor"
  /\ ret' = [op |-> "normalize", arg |-> m, out |-> Return(DP_normalize(m))]
  /\ UNCHANGED obj

DP_CalculateFeatures(m) ==
  /\ obj.cls = "DataProcessor"
  /\ ret' = [op |-> "calculateFeatures", arg |-> m, out |-> Return(DP_calculateFeatures(m))]
  /\ UNCHANGED obj

DP2_Normalize(m) ==
  /\ obj.cls = "DataProcessor2"
  /\ ret' = [op |-> "normalize", arg |-> m, out |-> Return(DP2_normalize(m))]
  /\ UNCHANGED obj

(***************************************************************************)
(* ModelTrainer of utils/modelTrainer.ts: obj.cls = "ModelTrainer".  The   *)
(* weights and biases come from Math.random: any value of RandomValues.    *)
(* obj.cls = "ModelTrainerPair" is two instances that receive the same     *)
(* train calls, each with its own random draws, and the same queries.      *)
(***************************************************************************)
\* this.model of the constructor
MT_newModel == [weights |-> <<>>, biases |-> <<>>, classes |-> <<>>]

New_ModelTrainer == [cls |-> "ModelTrainer", trainingData |-> <<>>, model |-> MT_newModel]

New_ModelTrainerPair ==
  [cls |-> "ModelTrainerPair", trainingData |-> <<>>, model |-> MT_newModel, twin |-> MT_newModel]

UNDEFINED == "<undefined>"

\* values of Math.random() * 2 - 1
RandomValues == {Fin(-1, 2), Fin(1, 2)}

MT_Matrices == { <<>>, << <<>> >>, << <<3>> >>, << <<4>> >>, << <<3, 4>> >> }

MT_LabeledPatterns ==
  { [pattern |-> << <<3>> >>, label |-> "schizophrenia"],
    [pattern |-> << <<4>> >>, label |-> "bipolar"],
    [pattern |-> <<>>, label |-> "bipolar"] }

MT_TrainArgs == SeqsUpTo(MT_LabeledPatterns, MaxTrain)

RECURSIVE MT_classes(_)
\* new Set(this.trainingData.map(d => d.label)), in insertion order
MT_classes(data) ==
  IF data = <<>> THEN <<>>
  ELSE LET before == MT_classes(SubSeq(data, 1, Len(data) - 1))
           label == data[Len(data)].label
       IN  IF \E i \in 1..Len(before) : before[i] = label THEN before ELSE Append(before, label)

\* the outcome of train's initialisation: a TypeError when the first pattern
\* has no row, nothing when data is empty
MT_trainOutcome(data) ==
  IF Len(data) > 0 /\ Len(data[1].pattern) = 0 THEN Throw(ErrTypeError) ELSE Return(<<>>)

\* the models train(data) can leave in place of model
MT_trained(model, data) ==
  IF Len(data) = 0 \/ MT_trainOutcome(data).kind = "throw" THEN {model}
  ELSE LET inputSize == Len(data[1].pattern[1])
           classes == MT_classes(data)
           numClasses == Len(classes)
       IN  { [weights |-> w, biases |-> b, classes |-> classes] :
               w \in [1..numClasses -> [1..inputSize -> RandomValues]],
               b \in [1..numClasses -> RandomValues] }

\* weights.reduce((sum, weight, i) => sum + weight * flattenedPattern[i], 0) + bias
MT_score(weights, bias, flattenedPattern) ==
  Add(SumSeq([i \in 1..Len(weights) |->
                IF i <= Len(flattenedPattern) THEN Mul(weights[i], flattenedPattern[i]) ELSE NaN]),
      bias)

\* classify
MT_classify(model, pattern) ==
  IF Len(model.weights) = 0 \/ Len(model.biases) = 0
  THEN Throw("Model must be trained before classification")
  ELSE LET flattenedPattern == Flat(pattern)
           scores == [c \in 1..Len(model.weights) |->
                        MT_score(model.weights[c], model.biases[c], flattenedPattern)]
           max == MaxSeq(scores)
           found == {c \in 1..Len(scores) : scores[c] = max /\ max.k # "nan"}
       IN  IF found = {} THEN Return(UNDEFINED)
           ELSE Return(model.classes[CHOOSE c \in found : \A e \in found : c <= e])

\* getAccuracy
MT_getAccuracy(trainingData, model) ==
  IF Len(trainingData) = 0 THEN Return(Zero)
  ELSE IF MT_classify(model, <<>>).kind = "throw" THEN MT_classify(model, <<>>)
  ELSE LET correct == Cardinality({i \in 1..Len(trainingData) :
                        MT_classify(model, trainingData[i].pattern).value = trainingData[i].label})
       IN  Return(Div(Fin(correct, 1), Fin(Len(trainingData), 1)))

MT_Train(p) ==
  /\ obj.cls = "ModelTrainer"
  /\ \E model \in MT_trained(obj.model, p) :
       obj' = [obj EXCEPT !.trainingData = p, !.model = model]
  /\ ret' = [op |-> "train", arg |-> p, out |-> MT_trainOutcome(p)]

MT_Classify(q) ==
  /\ obj.cls = "ModelTrainer"
  /\ ret' = [op |-> "classify", arg |-> q, out |-> MT_classify(obj.model, q)]
  /\ UNCHANGED obj

MT_GetAccuracy ==
  /\ obj.cls = "ModelTrainer"
  /\ ret' = [op |-> "getAccuracy", arg |-> <<>>, out |-> MT_getAccuracy(obj.trainingData, obj.model)]
  /\ UNCHANGED obj

(***************************************************************************)
(* The state machine.                                                      *)
(***************************************************************************)
NoCall == [op |-> "new", arg |-> <<>>, out |-> Return(<<>>)]

Next_NeuralSignalClassifier ==
  \/ \E p \in TrainArgs : NSC_Train(p)
  \/ \E q \in Matrices : NSC_Classify(q)
  \/ \E m \in Matrices : NSC_AnalyzePattern(m)

Next_BrainSignalClassifier1 ==
  \/ \E p \in BSC1_TrainArgs : BSC1_Train(p)
  \/ \E q \in Matrices : BSC1_Classify(q)
  \/ \E m \in Matrices : BSC1_AnalyzePattern(m)

Next_BrainSignalClassifier ==
  \/ \E p \in TrainArgs : BSC_Train(p)
  \/ \E q \in Matrices : BSC_Classify(q)
  \/ \E m \in Matrices : BSC_AnalyzePattern(m)

Next_PatternAnalyzer ==
  \/ \E p \in PA_TrainArgs : PA_Train(p)
  \/ \E q \in PA_Matrices : PA_Classify(q)
  \/ \E m \in PA_Matrices : PA_AnalyzePattern(m)
  \/ \E a \in PA_DistanceMatrices, b \in PA_DistanceMatrices : PA_CalculateEuclideanDistance(a, b)

Next_PatternAnalyzer2 ==
  \/ \E p \in PA2_TrainArgs : PA2_Train(p)
  \/ \E q \in PA2_Matrices : PA2_Classify(q)
  \/ \E m \in PA2_Matrices : PA2_AnalyzePattern(m)
  \/ \E k \in 1..MaxStore : PA2_WriteMatchedPattern(k)
  \/ PA2_WriteMatchList

Next_AnomalyDetector ==
  \/ \E m \in AD_Matrices : AD_DetectAnomalies(m)
  \/ \E l \in AD_Labels, m \in AD_References : AD_AddReferencePattern(l, m)
  \/ \E l \in AD_ThresholdLabels, t \in AD_ThresholdValues : AD_UpdateThreshold(l, t)
  \/ AD_GetThresholds
  \/ \E l \in AD_ThresholdLabels : AD_WriteReturnedThresholds(l)

Next_AnomalyDetector2 ==
  \/ \E m \in AD_Matrices, l \in AD2_Labels : AD2_DetectAnomalies(m, l)
  \/ \E m \in AD_Matrices, l \in AD2_Labels : AD2_GetAnomalyScore(m, l)
  \/ \E l \in AD2_Labels, m \in AD_Matrices : AD2_SetReferencePattern(l, m)

\* the train calls the pair receives: patterns of one width and two labels
MTP_TrainArgs ==
  SeqsUpTo({lp \in MT_LabeledPatterns : Len(lp.pattern) > 0}, MaxTrain)

\* both instances run train(p)
MTP_Train(p) ==
  /\ obj.cls = "ModelTrainerPair"
  /\ \E model \in MT_trained(obj.model, p), twin \in MT_trained(obj.twin, p) :
       obj' = [obj EXCEPT !.trainingData = p, !.model = model, !.twin = twin]
  /\ ret' = [op |-> "train", arg |-> p, out |-> MT_trainOutcome(p)]

\* both instances run classify(q)
MTP_Classify(q) ==
  /\ obj.cls = "ModelTrainerPair"
  /\ ret' = [op |-> "classify", arg |-> q,
             out |-> [first |-> MT_classify(obj.model, q), second |-> MT_classify(obj.twin, q)]]
  /\ UNCHANGED obj

Next_ModelTrainer ==
  \/ \E p \in MT_TrainArgs : MT_Train(p)
  \/ \E q \in MT_Matrices : MT_Classify(q)
  \/ MT_GetAccuracy

Next_ModelTrainerPair ==
  \/ \E p \in MTP_TrainArgs : MTP_Train(p)
  \/ \E q \in MT_Matrices : MTP_Classify(q)

Next_DataProcessor ==
  \/ \E m \in DP_Matrices : DP_Normalize(m)
  \/ \E m \in DP_FeatureMatrices : DP_CalculateFeatures(m)

Next_DataProcessor2 ==
  \E m \in DP_Matrices : DP2_Normalize(m)

\* every class of the repository
Init ==
  /\ obj \in {New_NeuralSignalClassifier, New_BrainSignalClassifier1,
              New_BrainSignalClassifier, New_PatternAnalyzer, New_PatternAnalyzer2,
              New_AnomalyDetector, New_AnomalyDetector2,
              New_DataProcessor, New_DataProcessor2, New_ModelTrainer}
  /\ ret = NoCall

Next ==
  \/ Next_NeuralSignalClassifier
  \/ Next_BrainSignalClassifier1
  \/ Next_BrainSignalClassifier
  \/ Next_PatternAnalyzer
  \/ Next_PatternAnalyzer2
  \/ Next_AnomalyDetector
  \/ Next_AnomalyDetector2
  \/ Next_DataProcessor
  \/ Next_DataProcessor2
  \/ Next_ModelTrainer

Spec == Init /\ [][Next]_vars

\* the classifiers that return one best label
Init_Classify ==
  /\ obj \in {New_NeuralSignalClassifier, New_BrainSignalClassifier, New_PatternAnalyzer2}
  /\ ret = NoCall

Next_Classify ==
  \/ Next_NeuralSignalClassifier
  \/ Next_BrainSignalClassifier
  \/ Next_PatternAnalyzer2

Spec_Classify == Init_Classify /\ [][Next_Classify]_vars

\* the two BrainSignalClassifier variants of classifier/index.ts
Init_BrainSignalClassifier ==
  /\ obj \in {New_BrainSignalClassifier1, New_BrainSignalClassifier}
  /\ ret = NoCall

Next_BrainSignalClassifier12 ==
  \/ Next_BrainSignalClassifier1
  \/ Next_BrainSignalClassifier

Spec_BrainSignalClassifier ==
  Init_BrainSignalClassifier /\ [][Next_BrainSignalClassifier12]_vars

\* the two DataProcessor classes
Init_DataProcessor ==
  /\ obj \in {New_DataProcessor, New_DataProcessor2}
  /\ ret = NoCall

Next_DataProcessor12 ==
  \/ Next_DataProcessor
  \/ Next_DataProcessor2

Spec_DataProcessor == Init_DataProcessor /\ [][Next_DataProcessor12]_vars

\* the analyzer of utils/patternAnalyzer.ts
Init_PatternAnalyzer ==
  /\ obj = New_PatternAnalyzer
  /\ ret = NoCall

Spec_PatternAnalyzer == Init_PatternAnalyzer /\ [][Next_PatternAnalyzer]_vars

\* the anomaly detector with appended references
Init_AnomalyDetector ==
  /\ obj = New_AnomalyDetector
  /\ ret = NoCall

Spec_AnomalyDetector == Init_AnomalyDetector /\ [][Next_AnomalyDetector]_vars

\* the trainer with random weights
Init_ModelTrainer ==
  /\ obj = New_ModelTrainer
  /\ ret = NoCall

Spec_ModelTrainer == Init_ModelTrainer /\ [][Next_ModelTrainer]_vars

\* two trainers given the same calls
Init_ModelTrainerPair ==
  /\ obj = New_ModelTrainerPair
  /\ ret = NoCall

Spec_ModelTrainerPair == Init_ModelTrainerPair /\ [][Next_ModelTrainerPair]_vars

(***************************************************************************)
(* What the claims speak of.                                               *)
(***************************************************************************)
StoreClasses ==
  {"NeuralSignalClassifier", "BrainSignalClassifier1", "BrainSignalClassifier",
   "PatternAnalyzer", "PatternAnalyzer2"}

BrainClasses == {"BrainSignalClassifier1", "BrainSignalClassifier"}

\* the stored sequence of labeled patterns
Store(o) == IF o.cls \in BrainClasses THEN o.trainingData ELSE o.patterns

\* the matrices the model calls o with
QueriesOf(o) ==
  CASE o.cls = "PatternAnalyzer" -> PA_Matrices
    [] o.cls = "PatternAnalyzer2" -> PA2_Matrices
    [] OTHER -> Matrices

\* what classify(q) would return in state o
ClassifyOutcome(o, q) ==
  CASE o.cls = "NeuralSignalClassifier" -> NSC_classify(o.patterns, q)
    [] o.cls = "BrainSignalClassifier1" -> BSC1_classify(o.trainingData, o.patternDimensions, q)
    [] o.cls = "BrainSignalClassifier" -> BSC_classify(o.trainingData, o.patternDimensions, q)
    [] o.cls = "PatternAnalyzer" -> Return(PA_findPatternMatches(o.patterns, q))
    [] o.cls = "PatternAnalyzer2" -> PA2_classify(o.patterns, q)

\* the score classify compares for each stored pattern: a distance in
\* NeuralSignalClassifier, a similarity in the other two
ClassifyScores(o, q) ==
  CASE o.cls = "NeuralSignalClassifier" ->
         [i \in 1..Len(o.patterns) |->
            NSC_distance2(NSC_stats(q), NSC_stats(o.patterns[i].pattern))]
    [] o.cls = "BrainSignalClassifier" ->
         [i \in 1..Len(o.trainingData) |->
            Sub(One, Abs(Sub(MeanOf(q), MeanOf(o.trainingData[i].pattern))))]
    [] o.cls = "PatternAnalyzer2" ->
         [i \in 1..Len(o.patterns) |->
            PA2_calculatePatternSimilarity(q, o.patterns[i].pattern)]

\* score a is strictly better than score b
Beats(o, a, b) == IF o.cls = "NeuralSignalClassifier" THEN Lt(a, b) ELSE Gt(a, b)

\* a score that can win: a number, and above 0.7 where only matches compete
CanWin(o, a) == a.k # "nan" /\ (o.cls = "PatternAnalyzer2" => Gt(a, Fin(7, 10)))

\* stored pattern i has the best score and is the first to have it
FirstBest(o, scores, i) ==
  /\ CanWin(o, scores[i])
  /\ \A j \in DOMAIN scores : ~Beats(o, scores[j], scores[i])
  /\ \A j \in 1..(i - 1) : scores[j] # scores[i]

\* the label a returned classification names
ReturnedLabel(o, out) ==
  IF o.cls = "NeuralSignalClassifier" THEN out.value ELSE out.value.label

ClassifyReturned == ret.op = "classify" /\ ret.out.kind = "return"

(***************************************************************************)
(* The claims.                                                             *)
(***************************************************************************)
\* C1: with an empty store, classify(q) raises the not-trained error for
\* every query q and returns no label or match list.
C1_EmptyStoreRaisesNotTrained ==
  (obj.cls \in StoreClasses /\ ret.op = "classify" /\ Store(obj) = <<>>)
    => ret.out = Throw(ErrNotTrained)

\* C2: after a successful train the stored sequence equals the argument of
\* that call, whatever was stored before.
C2_TrainReplacesStore ==
  (obj.cls \in StoreClasses /\ ret.op = "train" /\ ret.out.kind = "return")
    => Store(obj) = ret.arg

C4_StoredExampleFoundAtDistanceZero ==
  (obj.cls = "NeuralSignalClassifier" /\ ret.op = "classify"
   /\ Len(ret.arg) > 0
   /\ \E i \in 1..Len(obj.patterns) : obj.patterns[i].pattern = ret.arg)
    => /\ ret.out.kind = "return"
       /\ \E j \in 1..Len(obj.patterns) :
            /\ obj.patterns[j].label = ret.out.value
            /\ ClassifyScores(obj, ret.arg)[j] = Zero

\* every stored pattern has rows, all of width w
TrainedWidth(o, w) ==
  /\ Len(o.trainingData) > 0
  /\ \A i \in 1..Len(o.trainingData) :
       /\ Len(o.trainingData[i].pattern) > 0
       /\ ~Ragged(o.trainingData[i].pattern)
       /\ Len(o.trainingData[i].pattern[1]) = w

\* C5: in the strict classifier, once trained with patterns of row width w,
\* classify(q) raises the dimension-mismatch error for every q of another
\* row width, whatever was called in between.
C5_OtherWidthRaisesMismatch ==
  (obj.cls \in BrainClasses /\ ret.op = "classify"
   /\ Len(ret.arg) > 0 /\ ~Ragged(ret.arg)
   /\ \E w \in 0..3 : TrainedWidth(obj, w) /\ Len(ret.arg[1]) # w)
    => ret.out = Throw("Pattern dimension mismatch")

\* C6: analyzePattern has no side effect on the classifier: classify(q)
\* has the same outcome after analyzePattern(m) as before it.
C6_AnalyzePatternLeavesClassifyAlone ==
  [][(obj.cls \in StoreClasses /\ ret'.op = "analyzePattern")
       => \A q \in QueriesOf(obj) : ClassifyOutcome(obj', q) = ClassifyOutcome(obj, q)]_vars

\* the threshold in force for label l
CurrentThreshold(thresholds, l) ==
  IF l \in DOMAIN thresholds THEN thresholds[l] ELSE Fin(5, 10)

\* C7: isAnomalous is true exactly when the anomaly score exceeds the
\* current threshold of the label: the value of the last updateThreshold for
\* it, or its default.  The detector that has updateThreshold takes no label
\* in detectAnomalies; for it the verdict is to agree with the current
\* threshold of at least one label.
C7_VerdictFollowsCurrentThreshold ==
  /\ (obj.cls = "AnomalyDetector" /\ ret.op = "detectAnomalies")
       => \E l \in DOMAIN obj.thresholds :
            ret.out.value.isAnomalous = Gt(ret.out.value.anomalyScore, obj.thresholds[l])
  /\ (obj.cls = "AnomalyDetector2" /\ ret.op = "detectAnomalies" /\ ret.out.kind = "return")
       => ret.out.value =
            Gt(AD2_getAnomalyScore(obj.referencePatterns, ret.arg[1], ret.arg[2]).value,
               CurrentThreshold(obj.thresholds, ret.arg[2]))

\* C8: the anomaly score is non-negative for every matrix and every
\* detector state.
C8_AnomalyScoreNonNegative ==
  /\ (obj.cls = "AnomalyDetector" /\ ret.op = "detectAnomalies")
       => Le(Zero, ret.out.value.anomalyScore)
  /\ (obj.cls = "AnomalyDetector2" /\ ret.op = "getAnomalyScore" /\ ret.out.kind = "return")
       => Le(Zero, ret.out.value)
  /\ (obj.cls = "PatternAnalyzer" /\ ret.op = "analyzePattern")
       => Le(Zero, ret.out.value.anomalyScore)

C10_WritesToReturnedLeaveStateAlone ==
  [][ret'.op \in {"write matchedPatterns[k].pattern", "write matchedPatterns",
                  "write thresholds"}
       => obj' = obj]_vars

\* the similarity the ranked list is built from, for each stored pattern
RankScores(o, q) ==
  IF o.cls = "PatternAnalyzer"
  THEN [i \in 1..Len(o.patterns) |->
          Max2(Zero, Sub(One, Div(PA_calculateEuclideanDistance(q, o.patterns[i].pattern),
                                  Fin(10, 1))))]
  ELSE [i \in 1..Len(o.patterns) |->
          PA2_calculatePatternSimilarity(q, o.patterns[i].pattern)]

\* the ranked list a returned classify handed out, as <<label, score>> pairs
RankedList(o, out) ==
  IF o.cls = "PatternAnalyzer"
  THEN [k \in 1..Len(out.value) |-> <<out.value[k].label, out.value[k].confidence>>]
  ELSE [k \in 1..Len(out.value.matchedPatterns) |->
          <<out.value.matchedPatterns[k].label, out.value.matchedPatterns[k].similarity>>]

\* the stored patterns whose score is above 0.7
AboveThreshold(o, q) ==
  {i \in 1..Len(o.patterns) : Gt(RankScores(o, q)[i], Fin(7, 10))}

\* C11: the ranked-list classify returns exactly the stored patterns whose
\* similarity to the query is above 0.7, one entry per such pattern, ordered
\* by descending similarity.
C11_RankedListIsMatchesAboveThresholdDescending ==
  (obj.cls \in {"PatternAnalyzer", "PatternAnalyzer2"} /\ ClassifyReturned)
    => LET list == RankedList(obj, ret.out)
           scores == RankScores(obj, ret.arg)
           above == AboveThreshold(obj, ret.arg)
       IN  /\ Len(list) = Cardinality(above)
           /\ \A k \in 1..Len(list) : Gt(list[k][2], Fin(7, 10))
           /\ \A l \in {obj.patterns[i].label : i \in above} :
                Cardinality({k \in 1..Len(list) : list[k][1] = l})
                  = Cardinality({i \in above : obj.patterns[i].label = l})
           /\ \A k \in 1..(Len(list) - 1) : ~Lt(list[k][2], list[k + 1][2])

\* a number between 0 and 1 inclusive
InUnitInterval(a) == a.k # "nan" /\ Le(Zero, a) /\ Le(a, One)

\* the first classifier returns null when no similarity is a number: no
\* training pattern then replaces the initial bestMatch
BSC1_returnsNull(trainingData, pattern) ==
  \A i \in 1..Len(trainingData) :
    ~BSC_better(Div(One, Add(One, Abs(Sub(MeanOf(pattern), MeanOf(trainingData[i].pattern))))),
                NInf)

\* the confidences a returned classification of query q carries
ConfidencesOf(o, q, out) ==
  CASE o.cls = "PatternAnalyzer" -> {out.value[k].confidence : k \in 1..Len(out.value)}
    [] o.cls = "BrainSignalClassifier1" ->
         IF BSC1_returnsNull(o.trainingData, q) THEN {} ELSE {out.value.confidence}
    [] OTHER -> {out.value.confidence}

\* C12: every ClassificationResult classify returns has a confidence between
\* 0 and 1 inclusive.
C12_ConfidenceInUnitInterval ==
  (obj.cls \in {"BrainSignalClassifier1", "BrainSignalClassifier", "PatternAnalyzer"}
   /\ ClassifyReturned)
    => \A c \in ConfidencesOf(obj, ret.arg, ret.out) : InUnitInterval(c)

\* the matrix of a call has no element: no rows, or only rows of length zero
NoElements(m) == \A r \in 1..Len(m) : Len(m[r]) = 0

\* every scalar field of a feature record is 0
AllZero(features, fields) ==
  /\ fields \subseteq DOMAIN features
  /\ \A f \in fields : features[f] = Zero

\* C13: feature extraction accepts a matrix without elements (zero rows, or
\* rows of length zero) without failing and returns a feature record with
\* count 0 and every scalar field equal to 0.
C13_EmptyMatrixHasNeutralFeatures ==
  /\ (obj.cls = "DataProcessor" /\ ret.op = "calculateFeatures" /\ NoElements(ret.arg))
       => /\ ret.out.kind = "return"
          /\ AllZero(ret.out.value, {"mean", "variance", "stdDev", "min", "max"})
  /\ (obj.cls = "NeuralSignalClassifier" /\ ret.op = "analyzePattern" /\ NoElements(ret.arg))
       => /\ ret.out.kind = "return"
          /\ AllZero(ret.out.value, {"mean", "stdDev", "min", "max"})
  /\ (obj.cls = "PatternAnalyzer2" /\ ret.op = "analyzePattern" /\ NoElements(ret.arg))
       => /\ ret.out.kind = "return"
          /\ AllZero(ret.out.value.statistics,
                     {"mean", "variance", "standardDeviation", "min", "max"})
          /\ ret.out.value.statistics.count = 0

\* C14: classification is deterministic: two instances that received the
\* same sequence of train calls return the same result for the same query.
C14_SameTrainCallsSameClassification ==
  (obj.cls = "ModelTrainerPair" /\ ret.op = "classify") => ret.out.first = ret.out.second

\* the error train raises for an empty sequence
ErrEmptyInput == "Training patterns cannot be empty"

\* C15: train([]) on a BrainSignalClassifier raises the empty-input error,
\* and the stored patterns and the recorded dimension are what they were
\* before the call.
C15_EmptyTrainRaisesAndKeepsState ==
  [][(obj.cls \in BrainClasses /\ ret'.op = "train" /\ ret'.arg = <<>>)
       => /\ ret'.out = Throw(ErrEmptyInput)
          /\ obj'.trainingData = obj.trainingData
          /\ obj'.patternDimensions = obj.patternDimensions]_vars

\* train([]) has just been refused by a classifier trained before
C15_Witness ==
  /\ obj.cls = "BrainSignalClassifier"
  /\ ret.op = "train" /\ ret.arg = <<>> /\ ret.out = Throw(ErrEmptyInput)
  /\ Len(obj.trainingData) > 0
  /\ obj.patternDimensions > 0

\* every element of m equals the mean of its column: m has a value and each
\* of its rows repeats the first one
EqualsColumnMeans(m) ==
  /\ Len(m) > 0
  /\ Len(m[1]) > 0
  /\ \A i \in 1..Len(m) : m[i] = m[1]

\* C16: a matrix whose every element equals its column mean gets
\* anomalyScore 0, and isAnomalous false (0 exceeds no positive threshold).
C16_ColumnMeansMatrixScoresZero ==
  /\ (obj.cls = "PatternAnalyzer" /\ ret.op = "analyzePattern" /\ EqualsColumnMeans(ret.arg))
       => ret.out.value.anomalyScore = Zero
  /\ (obj.cls = "AnomalyDetector" /\ ret.op = "detectAnomalies" /\ EqualsColumnMeans(ret.arg))
       => /\ ret.out.value.anomalyScore = Zero
          /\ ret.out.value.isAnomalous = FALSE

\* the stored examples of o that classify gives their own label
SelfMatches(o) ==
  {i \in 1..Len(o.trainingData) :
     /\ MT_classify(o.model, o.trainingData[i].pattern).kind = "return"
     /\ MT_classify(o.model, o.trainingData[i].pattern).value = o.trainingData[i].label}

\* the fraction of the stored examples of o that classify gives their own label
SelfMatchFraction(o) ==
  IF Len(o.trainingData) = 0 THEN Zero
  ELSE Div(Fin(Cardinality(SelfMatches(o)), 1), Fin(Len(o.trainingData), 1))

\* C17: getAccuracy returns the number of stored examples that classify gives
\* their own label, divided by the number of stored examples, a value between
\* 0 and 1; with an empty store it returns 0.
C17_AccuracyIsFractionOfSelfMatches ==
  (obj.cls = "ModelTrainer" /\ ret.op = "getAccuracy")
    => /\ ret.out = Return(SelfMatchFraction(obj))
       /\ InUnitInterval(ret.out.value)
       /\ (Len(obj.trainingData) = 0 => ret.out.value = Zero)

DataProcessorClasses == {"DataProcessor", "DataProcessor2"}

\* the positions of the values of a matrix
Positions(m) == UNION {{<<r, c>> : c \in 1..Len(m[r])} : r \in 1..Len(m)}

\* out has the rows of m, each as long as in m
SameShape(m, out) ==
  /\ Len(out) = Len(m)
  /\ \A r \in 1..Len(m) : Len(out[r]) = Len(m[r])

\* every value of m is a finite number
AllFinite(m) == \A p \in Positions(m) : m[p[1]][p[2]].k = "fin"

\* all values of m are the same one
AllEqual(m) == \A p, q \in Positions(m) : m[p[1]][p[2]] = m[q[1]][q[2]]

\* what the claim states of normalize(m) = out
NormalizedWithinUnit(m, out) ==
  /\ SameShape(m, out)
  /\ \A p \in Positions(out) : InUnitInterval(out[p[1]][p[2]])
  /\ AllEqual(m) => \A p \in Positions(out) : out[p[1]][p[2]] = Zero

\* C18 as stated: for every non-empty matrix the output of normalize has
\* the shape of the input, its values lie in [0,1], and they are all 0 when
\* all input values are equal.
C18_NormalizeWithinUnit ==
  (obj.cls \in DataProcessorClasses /\ ret.op = "normalize" /\ Len(ret.arg) > 0)
    => NormalizedWithinUnit(ret.arg, ret.out.value)

\* C18 amended: the same for every non-empty matrix whose values are all
\* finite numbers.
C18_NormalizeFiniteWithinUnit ==
  (obj.cls \in DataProcessorClasses /\ ret.op = "normalize" /\ Len(ret.arg) > 0
     /\ AllFinite(ret.arg))
    => NormalizedWithinUnit(ret.arg, ret.out.value)

\* normalize has scaled a ragged finite matrix onto 0, 1 and a value between
C18_Witness ==
  /\ obj.cls \in DataProcessorClasses /\ ret.op = "normalize"
  /\ Len(ret.arg) = 2 /\ AllFinite(ret.arg)
  /\ \E p, q, r \in Positions(ret.out.value) :
       /\ ret.out.value[p[1]][p[2]] = Zero
       /\ ret.out.value[q[1]][q[2]] = One
       /\ ret.out.value[r[1]][r[2]] \notin {Zero, One}

\* no cell of the matrix m stands for an infinite value
NoInfinity(m) == \A i \in 1..Len(m) : \A j \in 1..Len(m[i]) : m[i][j] # InfCell

\* a distance step on the pair (A, B)
DistanceTaken == obj.cls = "PatternAnalyzer" /\ ret.op = "calculateEuclideanDistance"

\* C19 as stated: distance(A, A) = 0 for every matrix A and
\* distance(A, B) = distance(B, A) for every pair of matrices, ragged and of
\* different shapes included.
C19_DistanceZeroOnSelfAndSymmetric ==
  DistanceTaken
    => /\ ret.out.value = PA_calculateEuclideanDistance(ret.arg[2], ret.arg[1])
       /\ (ret.arg[1] = ret.arg[2] => ret.out.value = Zero)

\* C19 amended: distance(A, B) and distance(B, A) are the same value for
\* every pair of matrices, and distance(A, A) = 0 for every matrix A that
\* holds no infinite value.
C19_DistanceSymmetricAndZeroOnFiniteSelf ==
  DistanceTaken
    => /\ ret.out.value = PA_calculateEuclideanDistance(ret.arg[2], ret.arg[1])
       /\ (ret.arg[1] = ret.arg[2] /\ NoInfinity(ret.arg[1]) => ret.out.value = Zero)

\* the distance of a ragged two-row matrix and a one-row matrix of another
\* width has been taken, and it is a positive number
C19_Witness ==
  /\ DistanceTaken
  /\ Len(ret.arg[1]) = 2 /\ Len(ret.arg[2]) = 1
  /\ Len(ret.arg[1][1]) # Len(ret.arg[2][1])
  /\ ret.out.value.k = "fin" /\ Gt(ret.out.value, Zero)

\* the elements of a sequence
Range(xs) == {xs[i] : i \in 1..Len(xs)}

\* the model of o is derived from the stored sequence of o: its classes are
\* the labels stored, with one weight row and one bias per class
ModelMatchesStore(o) ==
  /\ Range(o.model.classes) = {o.trainingData[i].label : i \in 1..Len(o.trainingData)}
  /\ Len(o.model.weights) = Cardinality(Range(o.model.classes))
  /\ Len(o.model.biases) = Cardinality(Range(o.model.classes))

\* C20: after every train call on ModelTrainer the class set and the weight
\* and bias rows match the stored sequence; after train([]) none of an
\* earlier training remains and classify raises the not-trained error.
C20_ModelDerivedFromStoreAfterTrain ==
  (obj.cls = "ModelTrainer" /\ ret.op = "train")
    => /\ ModelMatchesStore(obj)
       /\ ret.arg = <<>> =>
            \A q \in MT_Matrices :
              MT_classify(obj.model, q) = Throw("Model must be trained before classification")

\* C21: train is atomic on failure: whenever train of a BrainSignalClassifier
\* raises an error, the stored training sequence and the recorded pattern
\* dimension are the same as before the call.
C21_FailedTrainKeepsState ==
  [][(obj.cls \in BrainClasses /\ ret'.op = "train" /\ ret'.out.kind = "throw")
       => /\ obj'.trainingData = obj.trainingData
          /\ obj'.patternDimensions = obj.patternDimensions]_vars

\* the classes whose classify returns one label
LabelClasses == {"NeuralSignalClassifier", "BrainSignalClassifier", "ModelTrainer"}

\* the labels of the patterns o stores
StoredLabels(o) ==
  LET stored == IF o.cls = "ModelTrainer" THEN o.trainingData ELSE Store(o)
  IN  {stored[i].label : i \in 1..Len(stored)}

\* the label classify has returned: the result itself, or its label field
LabelOf(o, out) ==
  IF o.cls = "BrainSignalClassifier" THEN out.value.label ELSE out.value

\* C22: whenever classify returns normally on a non-empty store, the label it
\* returns is the label of one of the stored patterns: never null, undefined
\* or 'unknown'.
C22_ReturnedLabelIsStored ==
  (obj.cls \in LabelClasses /\ ClassifyReturned /\ StoredLabels(obj) # {})
    => LabelOf(obj, ret.out) \in StoredLabels(obj)

=============================================================================
